---- MODULE Spec2Model ----
(***************************************************************************)
(* Wallet-connection widget (src/vite-project/src/App.jsx).                *)
(*                                                                         *)
(* The component's React state is the Session; the injected wallet         *)
(* (window.ethereum) is the environment.  Every asynchronous function is   *)
(* cut at its awaits: one action per synchronous block.  The state updates *)
(* of one synchronous block are batched by React into one render, and the  *)
(* effect that depends on [provider, address] (the balance refresh) is     *)
(* flushed with that render, so each action carries the effect's cleanup   *)
(* and re-run when it changes provider or address.  A wallet's answer and  *)
(* the continuation that consumes it are one step.  The library is ethers  *)
(* v6 (README, "App details"): p.listAccounts() answers with JsonRpcSigner *)
(* objects, p.getSigner() with a promise of one.                           *)
(***************************************************************************)
EXTENDS Integers, Sequences, FiniteSets, TLC

(***************************************************************************)
(* Bounds of the model.                                                    *)
(***************************************************************************)
MaxProviders == 3      \* BrowserProvider objects constructed in one run
MaxNotifs == 2         \* wallet notifications waiting for their handler
MaxOps == 2            \* things the user does: clicks on Connect, calls of
                       \* switchNetwork, changes made inside the wallet,
                       \* leaving the page

(***************************************************************************)
(* Optional values: null is the empty set, a present value a singleton.    *)
(***************************************************************************)
null == {}
Some(v) == {v}
Val(s) == CHOOSE v \in s : TRUE

(***************************************************************************)
(* Strings the code manipulates character by character are sequences of    *)
(* one-character strings.                                                  *)
(***************************************************************************)
HexDigits == <<"0", "1", "2", "3", "4", "5", "6", "7",
               "8", "9", "a", "b", "c", "d", "e", "f">>

\* Number.prototype.toString(16) / BigInt.prototype.toString(16), n >= 0
RECURSIVE ToString10(_)
ToString10(n) ==
    IF n < 10 THEN <<HexDigits[n + 1]>>
    ELSE ToString10(n \div 10) \o <<HexDigits[(n % 10) + 1]>>
RECURSIVE ToString16(_)
ToString16(n) ==
    IF n < 16 THEN <<HexDigits[n + 1]>>
    ELSE ToString16(n \div 16) \o <<HexDigits[(n % 16) + 1]>>

\* "0x" + chainId.toString(16)
ToHex(n) == <<"0", "x">> \o ToString16(n)

\* value of one character as a base-16 digit, -1 when it is none
DigitVal(c) ==
    CASE c = "0" -> 0 [] c = "1" -> 1 [] c = "2" -> 2 [] c = "3" -> 3
      [] c = "4" -> 4 [] c = "5" -> 5 [] c = "6" -> 6 [] c = "7" -> 7
      [] c = "8" -> 8 [] c = "9" -> 9
      [] c \in {"a", "A"} -> 10 [] c \in {"b", "B"} -> 11
      [] c \in {"c", "C"} -> 12 [] c \in {"d", "D"} -> 13
      [] c \in {"e", "E"} -> 14 [] c \in {"f", "F"} -> 15
      [] OTHER -> -1

NaN == -1

\* digits of s from position i on, accumulated into acc, up to the first
\* character that is no hex digit
RECURSIVE ParseDigits(_, _, _)
ParseDigits(s, i, acc) ==
    IF i > Len(s) \/ DigitVal(s[i]) < 0 THEN acc
    ELSE ParseDigits(s, i + 1, acc * 16 + DigitVal(s[i]))

\* parseInt(s, 16): an optional "0x"/"0X" prefix, then the longest run of
\* hex digits; NaN when there is none
ParseIntNoPrefix(s) ==
    IF Len(s) = 0 \/ DigitVal(s[1]) < 0 THEN NaN ELSE ParseDigits(s, 1, 0)
ParseInt16(s) ==
    LET start == IF Len(s) >= 2 /\ s[1] = "0" /\ s[2] \in {"x", "X"}
                 THEN 3 ELSE 1
    IN  IF start > Len(s) \/ DigitVal(s[start]) < 0 THEN NaN
        ELSE ParseDigits(s, start, 0)

(***************************************************************************)
(* ethers.formatEther: a smallest-unit amount, given by its decimal        *)
(* digits, as a decimal string of whole tokens.                            *)
(***************************************************************************)
EtherDecimals == 18

RECURSIVE PadZeros(_, _)
PadZeros(s, n) == IF Len(s) >= n THEN s ELSE PadZeros(<<"0">> \o s, n)

\* the fraction without its trailing zeros, one digit at least
RECURSIVE StripZeros(_)
StripZeros(f) ==
    IF Len(f) > 1 /\ f[Len(f)] = "0" THEN StripZeros(SubSeq(f, 1, Len(f) - 1))
    ELSE f

formatEther(wei) ==
    LET s == PadZeros(wei, EtherDecimals + 1)
        cut == Len(s) - EtherDecimals
    IN  SubSeq(s, 1, cut) \o <<".">> \o StripZeros(SubSeq(s, cut + 1, Len(s)))

RECURSIVE Zeros(_)
Zeros(n) == IF n = 0 THEN <<>> ELSE <<"0">> \o Zeros(n - 1)

(***************************************************************************)
(* The wallet's accounts.  A wallet reports addresses in lower case;       *)
(* ethers.getAddress returns the EIP-55 checksummed form and throws on a   *)
(* string that is no address.                                              *)
(***************************************************************************)
RawA == "0xd8da6bf26964af9d7eed9e03e53415d37aa96045"
RawB == "0x5aaeb6053f3e94c9b9a09f33669435e7ef1beaed"
RawBad == "0x1234"
SumA == "0xd8dA6BF26964aF9D7eEd9e03E53415D37aA96045"
SumB == "0x5aAeb6053F3E94C9b9A09f33669435E7Ef1BeAed"

\* [ok, val]: val is the checksummed address, ok = FALSE when getAddress throws
getAddressAsGiven(raw) == [ok |-> TRUE, val |-> raw]
getAddress(raw) ==
    CASE raw \in {RawA, SumA} -> [ok |-> TRUE, val |-> SumA]
      [] raw \in {RawB, SumB} -> [ok |-> TRUE, val |-> SumB]
      [] OTHER -> [ok |-> FALSE, val |-> raw]

\* the account lists a wallet reports
AccountLists == {<<>>, <<RawA>>, <<RawB, RawA>>}

\* the accounts authorized before the page loads
AccountsAtStart == {<<>>, <<RawA>>}

\* ethers v6 (README, "App details"): the JsonRpcSigner object of an account.
\* It is an object, no string: what getAddress is given when it is given one
\* is no address.
JsonRpcSigner(a) ==
    CASE a = RawA -> "[object JsonRpcSigner 0xd8da6bf2...]"
      [] a = RawB -> "[object JsonRpcSigner 0x5aaeb605...]"
      [] OTHER -> "[object JsonRpcSigner]"

\* native balance of an address at the wallet's RPC endpoint, in wei
WeiOf(addr) ==
    CASE addr = SumA -> <<"1", "5">> \o Zeros(17)      \* 1.5 ether
      [] addr = SumB -> <<"4", "2">>                   \* 42 wei
      [] OTHER -> <<"0">>

\* chains: the wallet knows some of them from the start
Chain == [mainnet |-> 1, polygon |-> 137, avalanche |-> 43114]
Mainnet == Chain.mainnet        \* 0x1
Polygon == Chain.polygon        \* 0x89
Avalanche == Chain.avalanche    \* 0xa86a
ChainIds == {Mainnet, Polygon, Avalanche}
KnownAtStart == {Mainnet, Avalanche}

\* messages
NoWalletMsg == "No injected wallet found (install MetaMask)."
NoSwitchWalletMsg == "No wallet available to switch network."
UserRejectedMsg == "User rejected the request."
UnrecognizedChainMsg == "Unrecognized chain ID."
RpcErrorMsg == "Internal JSON-RPC error."
InvalidAddressMsg == "invalid address"

\* error codes of the wallet: the user rejected the request (EIP-1193), the
\* chain is not known to the wallet (EIP-3326)
WalletCodes == [userRejected |-> 4001, unrecognizedChain |-> 4902]

(***************************************************************************)
(* State.                                                                  *)
(***************************************************************************)
VARIABLES
    \* the Session: the component's React state
    provider,      \* null or Some(id of a BrowserProvider)
    signer,        \* null or Some(id of the provider the signer comes from)
    address,       \* null or Some(checksummed address)
    balance,       \* null or Some(decimal string)
    chainId,       \* null or Some(number)
    chainHex,      \* null or Some(hex string)
    error,         \* null or Some(message)
    connecting,    \* BOOLEAN
    \* the component
    phase,         \* "created", "mounted", "unmounted"
    nextPid,       \* id of the next BrowserProvider constructed
    inits,         \* runs of initProvider suspended at an await
    conn,          \* the call of connect, and what it has done
    switches,      \* calls of switchNetwork suspended at an await
    queries,       \* balance queries not yet answered, each with its flag
    \* the injected wallet
    hasWallet,     \* window.ethereum is defined
    wAccounts,     \* the accounts the wallet reports as authorized
    wChain,        \* the wallet's active chain
    wKnown,        \* the chains the wallet knows
    notifs,        \* notifications emitted, in order, not yet handled
    listeners,     \* how many listeners the page has registered, per event
    \* history
    ops            \* things the user has done so far

session == <<provider, signer, address, balance, chainId, chainHex, error,
             connecting>>
wallet == <<hasWallet, wAccounts, wChain, wKnown>>
vars == <<provider, signer, address, balance, chainId, chainHex, error,
          connecting, phase, nextPid, inits, conn, switches, queries,
          hasWallet, wAccounts, wChain, wKnown, notifs, listeners, ops>>

\* the two events of the wallet the page listens to
NotifKinds == {"accountsChanged", "chainChanged"}

IdleConn ==
    [pc |-> "idle", pid |-> 0, outcome |-> "none", before |-> <<null, null>>,
     mixed |-> FALSE, raw |-> ""]

Init ==
    /\ provider = null
    /\ signer = null
    /\ address = null
    /\ balance = null
    /\ chainId = null
    /\ chainHex = null
    /\ error = null
    /\ connecting = FALSE
    /\ phase = "created"
    /\ nextPid = 1
    /\ inits = {}
    /\ conn = IdleConn
    /\ switches = {}
    /\ queries = {}
    /\ hasWallet \in BOOLEAN
    /\ wAccounts \in IF hasWallet THEN AccountsAtStart ELSE {<<>>}
    /\ wChain = Mainnet
    /\ wKnown = KnownAtStart
    /\ notifs = <<>>
    /\ listeners = [k \in NotifKinds |-> 0]
    /\ ops = 0

(***************************************************************************)
(* React.                                                                  *)
(***************************************************************************)
\* a state setter called after the component was unmounted changes nothing
W(old, new) == IF phase = "mounted" THEN new ELSE old

\* window.ethereum.on(event, handler), for both events
on(L) == [k \in NotifKinds |-> L[k] + 1]

\* window.ethereum.removeListener(event, handler), for both events
removeListenerMissing(L) == L
removeListener(L) == [k \in NotifKinds |-> IF L[k] > 0 THEN L[k] - 1 ELSE 0]

\* the listeners are registered from mount to teardown, if a wallet is there
Subscribed == \A k \in NotifKinds : listeners[k] > 0

\* the wallet emits a notification: queued for the handler when subscribed
CanEmit == ~Subscribed \/ Len(notifs) < MaxNotifs
EmitUnheard(q, n) == q
Emit(q, n) == IF Subscribed THEN Append(q, n) ELSE q
AccountsChanged(accs) ==
    [kind |-> "accountsChanged", accs |-> accs, hex |-> <<>>]
ChainChanged(hex) == [kind |-> "chainChanged", accs |-> <<>>, hex |-> hex]

\* what is remembered of a call of connect is its last step's; a handler
\* that runs while connect() is suspended is noted
Aged == IF conn.pc = "idle" THEN IdleConn ELSE conn
Mixed == IF conn.pc = "idle" THEN IdleConn ELSE [conn EXCEPT !.mixed = TRUE]

(***************************************************************************)
(* Balance refresh: the effect on [provider, address].  np and na are the  *)
(* values the render commits; b is the balance the handler itself wrote.   *)
(***************************************************************************)
DepsChanged(np, na) == np # provider \/ na # address

\* cleanup of the previous run: mounted = false
RevokeNone(Q) == Q
Revoke(Q) == {[q EXCEPT !.live = FALSE] : q \in Q}

\* loadBalance: query the balance when both are there
EffQueries(np, na) ==
    IF ~DepsChanged(np, na) THEN queries
    ELSE Revoke(queries) \cup
         (IF np # null /\ na # null
          THEN {[pid |-> Val(np), addr |-> Val(na), live |-> TRUE]}
          ELSE {})

\* loadBalance: clear the balance when either is missing
EffBalance(np, na, b) ==
    IF DepsChanged(np, na) /\ (np = null \/ na = null) THEN null ELSE b

(***************************************************************************)
(* initProvider.                                                           *)
(***************************************************************************)
\* up to the first await: the wallet check, the new provider, setProvider
initProvider ==
    IF hasWallet
    THEN /\ provider' = Some(nextPid)
         /\ nextPid' = nextPid + 1
         /\ inits' = inits \cup {[pid |-> nextPid, pc |-> "getNetwork"]}
         /\ queries' = EffQueries(Some(nextPid), address)
         /\ balance' = EffBalance(Some(nextPid), address, balance)
         /\ UNCHANGED <<signer, error>>
    ELSE /\ error' = Some(NoWalletMsg)
         /\ provider' = null
         /\ signer' = null
         /\ queries' = EffQueries(null, address)
         /\ balance' = EffBalance(null, address, balance)
         /\ UNCHANGED <<nextPid, inits>>

\* the mount effects: initProvider(), the two subscriptions, and the first
\* run of the balance effect
Mount ==
    /\ phase = "created"
    /\ phase' = "mounted"
    /\ initProvider
    /\ listeners' = IF hasWallet THEN on(listeners) ELSE listeners
    /\ UNCHANGED <<address, chainId, chainHex, connecting, conn, switches,
                   wallet, notifs, ops>>

\* teardown: the listeners are removed, the balance effect is cleaned up
Unmount ==
    /\ phase = "mounted"
    /\ ops < MaxOps
    /\ ops' = ops + 1
    /\ phase' = "unmounted"
    /\ queries' = Revoke(queries)
    /\ listeners' = IF hasWallet THEN removeListener(listeners) ELSE listeners
    /\ notifs' = IF \A k \in NotifKinds : listeners'[k] = 0 THEN <<>>
                 ELSE notifs
    /\ conn' = Mixed
    /\ UNCHANGED <<session, nextPid, inits, switches, wallet>>

\* p.getNetwork() answers: setChainId, setChainHex
InitGetNetworkOk(r) ==
    /\ r \in inits /\ r.pc = "getNetwork"
    /\ chainId' = W(chainId, Some(wChain))
    /\ chainHex' = W(chainHex, Some(ToHex(wChain)))
    /\ inits' = (inits \ {r}) \cup {[r EXCEPT !.pc = "listAccounts"]}
    /\ conn' = Mixed
    /\ UNCHANGED <<provider, signer, address, balance, error, connecting,
                   phase, listeners, nextPid, switches, queries, wallet,
                   notifs, ops>>

\* p.listAccounts() of ethers v6: eth_accounts, a passive read, and one
\* JsonRpcSigner object per account the wallet reports
listAccounts == [i \in 1..Len(wAccounts) |-> JsonRpcSigner(wAccounts[i])]

\* p.listAccounts() answers: with accounts, setSigner, then
\* setAddress(getAddress(accounts[0])) or, when getAddress throws, the catch
\* block
InitListAccountsOk(r) ==
    /\ r \in inits /\ r.pc = "listAccounts"
    /\ LET accounts == listAccounts
           ga == getAddress(accounts[1])
           na == IF Len(accounts) > 0 /\ ga.ok
                 THEN W(address, Some(ga.val)) ELSE address
       IN  /\ signer' = IF Len(accounts) > 0 THEN W(signer, Some(r.pid))
                        ELSE signer
           /\ address' = na
           /\ error' = IF Len(accounts) > 0 /\ ~ga.ok
                       THEN W(error, Some(InvalidAddressMsg)) ELSE error
           /\ queries' = EffQueries(provider, na)
           /\ balance' = EffBalance(provider, na, balance)
    /\ inits' = inits \ {r}
    /\ conn' = Mixed
    /\ UNCHANGED <<provider, chainId, chainHex, connecting, phase, listeners,
                   nextPid, switches, wallet, notifs, ops>>

\* either read fails: the catch block
InitReadFails(r) ==
    /\ r \in inits
    /\ error' = W(error, Some(RpcErrorMsg))
    /\ inits' = inits \ {r}
    /\ conn' = Aged
    /\ UNCHANGED <<provider, signer, address, balance, chainId, chainHex,
                   connecting, phase, listeners, nextPid, switches, queries,
                   wallet, notifs, ops>>

(***************************************************************************)
(* The two listeners.                                                      *)
(***************************************************************************)
\* the empty list: setAddress(null), setSigner(null), setBalance(null)
AddressOnEmptyKept == address
AddressOnEmpty == null
SignerOnEmptyKept == signer
SignerOnEmpty == null
BalanceOnEmpty == null

\* a list with accounts: the signer comes from a provider constructed for it,
\* new ethers.BrowserProvider(window.ethereum), not from the Session's
SignerOnAccountsReused == provider
SignerOnAccounts == Some(nextPid)

onAccountsChanged ==
    /\ Subscribed
    /\ notifs # <<>>
    /\ Head(notifs).kind = "accountsChanged"
    /\ LET accs == Head(notifs).accs
           ga == getAddress(accs[1])
       IN  IF Len(accs) = 0
           THEN /\ address' = AddressOnEmpty
                /\ signer' = SignerOnEmpty
                /\ balance' = EffBalance(provider, AddressOnEmpty,
                                         BalanceOnEmpty)
                /\ queries' = EffQueries(provider, AddressOnEmpty)
                /\ nextPid' = nextPid
           ELSE IF ga.ok
           THEN /\ nextPid <= MaxProviders
                /\ address' = Some(ga.val)
                /\ signer' = SignerOnAccounts
                /\ nextPid' = nextPid + 1
                /\ balance' = EffBalance(provider, Some(ga.val), balance)
                /\ queries' = EffQueries(provider, Some(ga.val))
           ELSE \* getAddress throws out of the handler
                /\ UNCHANGED <<address, signer, balance, queries, nextPid>>
    /\ notifs' = Tail(notifs)
    /\ conn' = Mixed
    /\ UNCHANGED <<provider, chainId, chainHex, error, connecting, phase,
                   listeners, inits, switches, wallet, ops>>

onChainChanged ==
    /\ Subscribed
    /\ notifs # <<>>
    /\ Head(notifs).kind = "chainChanged"
    /\ nextPid <= MaxProviders
    /\ chainHex' = Some(Head(notifs).hex)
    /\ chainId' = Some(ParseInt16(Head(notifs).hex))
    /\ initProvider
    /\ notifs' = Tail(notifs)
    /\ conn' = Mixed
    /\ UNCHANGED <<address, connecting, phase, listeners, switches, wallet,
                   ops>>

(***************************************************************************)
(* The balance query answers.                                              *)
(***************************************************************************)
\* the "still relevant" flag: if (!mounted) return
RelevantAlways(q) == TRUE
Relevant(q) == q.live

BalanceOk(q) ==
    /\ q \in queries
    /\ queries' = queries \ {q}
    /\ balance' = IF Relevant(q) THEN Some(formatEther(WeiOf(q.addr)))
                  ELSE balance
    /\ conn' = Aged
    /\ UNCHANGED <<provider, signer, address, chainId, chainHex, error,
                   connecting, phase, listeners, nextPid, inits, switches,
                   wallet, notifs, ops>>

\* the catch block sets the error and leaves the balance shown
BalanceOnFailureCleared == null
BalanceOnFailure == balance

BalanceFails(q) ==
    /\ q \in queries
    /\ queries' = queries \ {q}
    /\ error' = IF Relevant(q) THEN Some(RpcErrorMsg) ELSE error
    /\ balance' = IF Relevant(q) THEN BalanceOnFailure ELSE balance
    /\ conn' = Aged
    /\ UNCHANGED <<provider, signer, address, chainId, chainHex,
                   connecting, phase, listeners, nextPid, inits, switches,
                   wallet, notifs, ops>>

(***************************************************************************)
(* connect.  The button calls it only while no address is shown, and is    *)
(* disabled while connecting.                                              *)
(***************************************************************************)
\* the finally block
ConnectFinallyMissing == connecting
ConnectFinally == W(connecting, FALSE)

\* the click: setError(null), setConnecting(true), then either the
\* no-wallet branch (confirm, setConnecting(false), return) or the
\* eth_requestAccounts request
connect ==
    /\ phase = "mounted"
    /\ ~connecting
    /\ address = null
    /\ ops < MaxOps
    /\ ops' = ops + 1
    /\ error' = null
    /\ IF hasWallet
       THEN /\ connecting' = TRUE
            /\ conn' = [IdleConn EXCEPT !.pc = "requestAccounts",
                                        !.outcome = "pending",
                                        !.before = <<address, signer>>]
       ELSE /\ connecting' = FALSE
            /\ conn' = [IdleConn EXCEPT !.outcome = "noWallet",
                                        !.before = <<address, signer>>]
    /\ UNCHANGED <<provider, signer, address, balance, chainId, chainHex,
                   phase, listeners, nextPid, inits, switches, queries,
                   wallet, notifs>>

\* the wallet answers eth_requestAccounts with the accounts the user
\* authorized: setProvider, setSigner, setAddress, then the chain read
ConnectAccountsOk(accounts) ==
    /\ conn.pc = "requestAccounts"
    /\ accounts \in AccountLists \ {<<>>}
    /\ nextPid <= MaxProviders
    /\ accounts # wAccounts => CanEmit
    /\ wAccounts' = accounts
    /\ notifs' = IF accounts # wAccounts
                 THEN Emit(notifs, AccountsChanged(accounts)) ELSE notifs
    /\ LET ga == getAddress(accounts[1])
           np == W(provider, Some(nextPid))
           na == IF ga.ok THEN W(address, Some(ga.val)) ELSE address
       IN  /\ provider' = np
           /\ signer' = W(signer, Some(nextPid))
           /\ address' = na
           /\ queries' = EffQueries(np, na)
           /\ balance' = EffBalance(np, na, balance)
           /\ IF ga.ok
              THEN /\ conn' = [conn EXCEPT !.pc = "getNetwork",
                                           !.pid = nextPid,
                                           !.raw = accounts[1]]
                   /\ UNCHANGED <<error, connecting>>
              ELSE /\ error' = W(error, Some(InvalidAddressMsg))
                   /\ connecting' = ConnectFinally
                   /\ conn' = [conn EXCEPT !.pc = "idle",
                                           !.outcome = "threw",
                                           !.raw = accounts[1]]
    /\ nextPid' = nextPid + 1
    /\ UNCHANGED <<chainId, chainHex, phase, listeners, inits, switches,
                   hasWallet, wChain, wKnown, ops>>

\* the wallet answers with no account
ConnectAccountsEmpty ==
    /\ conn.pc = "requestAccounts"
    /\ wAccounts = <<>>
    /\ connecting' = ConnectFinally
    /\ conn' = [conn EXCEPT !.pc = "idle", !.outcome = "empty"]
    /\ UNCHANGED <<provider, signer, address, balance, chainId, chainHex,
                   error, phase, listeners, nextPid, inits, switches, queries,
                   wallet, notifs, ops>>

\* the user rejects the authorization request
ConnectRejected ==
    /\ conn.pc = "requestAccounts"
    /\ error' = W(error, Some(UserRejectedMsg))
    /\ connecting' = ConnectFinally
    /\ conn' = [conn EXCEPT !.pc = "idle", !.outcome = "rejected"]
    /\ UNCHANGED <<provider, signer, address, balance, chainId, chainHex,
                   phase, listeners, nextPid, inits, switches, queries,
                   wallet, notifs, ops>>

\* p.getNetwork() answers: setChainId, setChainHex
ConnectNetworkOk ==
    /\ conn.pc = "getNetwork"
    /\ chainId' = W(chainId, Some(wChain))
    /\ chainHex' = W(chainHex, Some(ToHex(wChain)))
    /\ connecting' = ConnectFinally
    /\ conn' = [conn EXCEPT !.pc = "idle", !.outcome = "ok"]
    /\ UNCHANGED <<provider, signer, address, balance, error, phase,
                   listeners, nextPid, inits, switches, queries, wallet,
                   notifs, ops>>

\* p.getNetwork() fails
ConnectNetworkFails ==
    /\ conn.pc = "getNetwork"
    /\ error' = W(error, Some(RpcErrorMsg))
    /\ connecting' = ConnectFinally
    /\ conn' = [conn EXCEPT !.pc = "idle", !.outcome = "networkFailed"]
    /\ UNCHANGED <<provider, signer, address, balance, chainId, chainHex,
                   phase, listeners, nextPid, inits, switches, queries,
                   wallet, notifs, ops>>

(***************************************************************************)
(* switchNetwork.                                                          *)
(***************************************************************************)
\* the chain of the "Switch to" button
TARGET_CHAIN == [hexChainId |-> <<"0", "x", "1">>, name |-> "Ethereum Mainnet"]

\* the hexChainId the helper is called with: the button's, and a chain the
\* wallet does not know from the start
TargetHexes == {TARGET_CHAIN.hexChainId, ToHex(Polygon)}
AddChainParams == {[chainId |-> ToHex(Polygon), chainName |-> "Polygon"]}
OptionalAddChainParams == {null} \cup {Some(x) : x \in AddChainParams}

\* the catch block of the switch request
IssuesAddWithoutParams(code, addChainParams) == code = 4902
IssuesAddOnAnyError(code, addChainParams) == addChainParams # null
IssuesAdd(code, addChainParams) ==
    code = 4902 /\ addChainParams # null

switchNetwork(hexChainId, addChainParams) ==
    /\ phase = "mounted"
    /\ ops < MaxOps
    /\ ops' = ops + 1
    /\ IF hasWallet
       THEN /\ switches' = switches \cup
                   {[id |-> ops + 1, pc |-> "switch",
                     hex |-> hexChainId, add |-> addChainParams]}
            /\ error' = error
       ELSE /\ error' = Some(NoSwitchWalletMsg)
            /\ UNCHANGED switches
    /\ conn' = Aged
    /\ UNCHANGED <<provider, signer, address, balance, chainId, chainHex,
                   connecting, phase, listeners, nextPid, inits, queries,
                   wallet, notifs>>

\* the wallet switches: nothing is written, the wallet will notify
SwitchOk(s) ==
    /\ s \in switches /\ s.pc = "switch"
    /\ ParseInt16(s.hex) \in wKnown
    /\ ParseInt16(s.hex) # wChain => CanEmit
    /\ wChain' = ParseInt16(s.hex)
    /\ notifs' = IF ParseInt16(s.hex) # wChain
                 THEN Emit(notifs, ChainChanged(ToHex(ParseInt16(s.hex))))
                 ELSE notifs
    /\ switches' = switches \ {s}
    /\ conn' = Aged
    /\ UNCHANGED <<session, phase, listeners, nextPid, inits, queries,
                   hasWallet, wAccounts, wKnown, ops>>

\* the wallet refuses the switch: the user rejects it (4001), or the chain
\* is unknown to the wallet (4902)
SwitchFails(s, code) ==
    /\ s \in switches /\ s.pc = "switch"
    /\ code = IF ParseInt16(s.hex) \in wKnown THEN WalletCodes.userRejected
              ELSE WalletCodes.unrecognizedChain
    /\ IF IssuesAdd(code, s.add)
       THEN /\ switches' = (switches \ {s}) \cup
                   {[s EXCEPT !.pc = "add"]}
            /\ error' = error
       ELSE /\ switches' = switches \ {s}
            /\ error' = W(error, Some(IF code = WalletCodes.unrecognizedChain
                                      THEN UnrecognizedChainMsg
                                      ELSE UserRejectedMsg))
    /\ conn' = Aged
    /\ UNCHANGED <<provider, signer, address, balance, chainId, chainHex,
                   connecting, phase, listeners, nextPid, inits, queries,
                   wallet, notifs, ops>>

\* the wallet registers the chain and switches to it
AddOk(s) ==
    /\ s \in switches /\ s.pc = "add"
    /\ LET c == ParseInt16(Val(s.add).chainId)
       IN  /\ c # wChain => CanEmit
           /\ wKnown' = wKnown \cup {c}
           /\ wChain' = c
           /\ notifs' = IF c # wChain THEN Emit(notifs, ChainChanged(ToHex(c)))
                        ELSE notifs
    /\ switches' = switches \ {s}
    /\ conn' = Aged
    /\ UNCHANGED <<session, phase, listeners, nextPid, inits, queries,
                   hasWallet, wAccounts, ops>>

\* the user rejects the registration
AddFails(s) ==
    /\ s \in switches /\ s.pc = "add"
    /\ error' = W(error, Some(UserRejectedMsg))
    /\ switches' = switches \ {s}
    /\ conn' = Aged
    /\ UNCHANGED <<provider, signer, address, balance, chainId, chainHex,
                   connecting, phase, listeners, nextPid, inits, queries,
                   wallet, notifs, ops>>

(***************************************************************************)
(* The user acts inside the wallet.                                        *)
(***************************************************************************)
WalletAccounts(accounts) ==
    /\ hasWallet /\ phase # "created"
    /\ ops < MaxOps
    /\ accounts \in AccountLists \ {wAccounts}
    /\ CanEmit
    /\ wAccounts' = accounts
    /\ notifs' = Emit(notifs, AccountsChanged(accounts))
    /\ ops' = ops + 1
    /\ conn' = Aged
    /\ UNCHANGED <<session, phase, listeners, nextPid, inits, switches,
                   queries, hasWallet, wChain, wKnown>>

WalletChain(c) ==
    /\ hasWallet /\ phase # "created"
    /\ ops < MaxOps
    /\ c \in wKnown \ {wChain}
    /\ CanEmit
    /\ wChain' = c
    /\ notifs' = Emit(notifs, ChainChanged(ToHex(c)))
    /\ ops' = ops + 1
    /\ conn' = Aged
    /\ UNCHANGED <<session, phase, listeners, nextPid, inits, switches,
                   queries, hasWallet, wAccounts, wKnown>>

(***************************************************************************)
(* The specification.                                                      *)
(***************************************************************************)
Next ==
    \/ Mount
    \/ Unmount
    \/ \E r \in inits : InitGetNetworkOk(r)
    \/ \E r \in inits : InitListAccountsOk(r)
    \/ \E r \in inits : InitReadFails(r)
    \/ onAccountsChanged
    \/ onChainChanged
    \/ \E q \in queries : BalanceOk(q)
    \/ \E q \in queries : BalanceFails(q)
    \/ connect
    \/ \E accounts \in AccountLists : ConnectAccountsOk(accounts)
    \/ ConnectAccountsEmpty
    \/ ConnectRejected
    \/ ConnectNetworkOk
    \/ ConnectNetworkFails
    \/ \E h \in TargetHexes, a \in OptionalAddChainParams : switchNetwork(h, a)
    \/ \E s \in switches : SwitchOk(s)
    \/ \E s \in switches, code \in {4001, 4902} : SwitchFails(s, code)
    \/ \E s \in switches : AddOk(s)
    \/ \E s \in switches : AddFails(s)
    \/ \E accounts \in AccountLists : WalletAccounts(accounts)
    \/ \E c \in ChainIds : WalletChain(c)

Spec == Init /\ [][Next]_vars

(***************************************************************************)
(* The runs in which every read of initProvider() and connect() succeeds,  *)
(* every notification the wallet emits reaches its handler and every read  *)
(* is answered.                                                            *)
(***************************************************************************)
NextReadsSucceed ==
    \/ Mount
    \/ Unmount
    \/ \E r \in inits : InitGetNetworkOk(r)
    \/ \E r \in inits : InitListAccountsOk(r)
    \/ onAccountsChanged
    \/ onChainChanged
    \/ \E q \in queries : BalanceOk(q)
    \/ \E q \in queries : BalanceFails(q)
    \/ connect
    \/ \E accounts \in AccountLists : ConnectAccountsOk(accounts)
    \/ ConnectAccountsEmpty
    \/ ConnectRejected
    \/ ConnectNetworkOk
    \/ \E h \in TargetHexes, a \in OptionalAddChainParams : switchNetwork(h, a)
    \/ \E s \in switches : SwitchOk(s)
    \/ \E s \in switches, code \in {4001, 4902} : SwitchFails(s, code)
    \/ \E s \in switches : AddOk(s)
    \/ \E s \in switches : AddFails(s)
    \/ \E accounts \in AccountLists : WalletAccounts(accounts)
    \/ \E c \in ChainIds : WalletChain(c)

HandlersRun == WF_vars(onAccountsChanged) /\ WF_vars(onChainChanged)

ReadsAnswered ==
    /\ WF_vars(\E r \in inits : InitGetNetworkOk(r))
    /\ WF_vars(\E r \in inits : InitListAccountsOk(r))
    /\ WF_vars(ConnectNetworkOk)

SpecReadsSucceed ==
    Init /\ [][NextReadsSucceed]_vars /\ HandlersRun /\ ReadsAnswered

(***************************************************************************)
(* Steps, recognised from the two states they join.                        *)
(***************************************************************************)
\* the accountsChanged handler runs on an empty list
HandlesEmptyAccounts ==
    /\ Subscribed
    /\ notifs # <<>>
    /\ Head(notifs).kind = "accountsChanged"
    /\ Len(Head(notifs).accs) = 0
    /\ notifs' = Tail(notifs)
    /\ phase' = "mounted"

\* the balance query q is answered (with a balance or with a failure)
Answered(q) ==
    /\ q \in queries
    /\ queries' = queries \ {q}
    /\ provider' = provider
    /\ address' = address
    /\ phase' = phase

\* connect() is called with no wallet
ConnectsWithoutWallet ==
    ~hasWallet /\ conn'.outcome = "noWallet" /\ ops' = ops + 1

\* the wallet answers the switch request of call s, and can only refuse it
\* as unrecognized
RefusedAsUnrecognized(s) ==
    /\ s \in switches
    /\ s.pc = "switch"
    /\ s \notin switches'
    /\ ParseInt16(s.hex) \notin wKnown
    /\ phase = "mounted"

\* the run r of initProvider gets the answer of p.listAccounts(): its last
\* step, both reads having succeeded
ListsAccounts(r) ==
    /\ r \in inits
    /\ r.pc = "listAccounts"
    /\ r \notin inits'
    /\ phase = "mounted"
    /\ error' # Some(RpcErrorMsg)

\* an eth_requestAccounts request is sent to the wallet
RequestsAccounts == conn.pc # "requestAccounts" /\ conn'.pc = "requestAccounts"

\* the answer to the balance query q is a balance, which the step writes
Committed(q) ==
    /\ balance' = Some(formatEther(WeiOf(q.addr)))
    /\ error' = error

\* the accountsChanged handler runs on a list with accounts
HandlesAccounts ==
    /\ Subscribed
    /\ notifs # <<>>
    /\ Head(notifs).kind = "accountsChanged"
    /\ Len(Head(notifs).accs) > 0
    /\ notifs' = Tail(notifs)
    /\ phase' = "mounted"

\* ethers.getAddress throws in this step: in initProvider(), given the first
\* entry of p.listAccounts(), or in connect(), given the first account
\* returned
NormalizationFails ==
    \/ \E r \in inits :
          /\ ListsAccounts(r)
          /\ wAccounts # <<>>
          /\ ~getAddress(listAccounts[1]).ok
    \/ conn.pc = "requestAccounts" /\ conn'.outcome = "threw"

\* the bound on the providers constructed keeps a handler from running
HandlerHeld == notifs # <<>> /\ nextPid > MaxProviders

\* the chainChanged handler runs
HandlesChainChanged ==
    /\ Subscribed
    /\ notifs # <<>>
    /\ Head(notifs).kind = "chainChanged"
    /\ notifs' = Tail(notifs)
    /\ phase' = "mounted"

\* an accountsChanged notification waits for its handler
AccountsChangedPending ==
    \E i \in 1..Len(notifs) : notifs[i].kind = "accountsChanged"

(***************************************************************************)
(* C1: once the accountsChanged handler has processed an empty account     *)
(* list, address, signer and balance are all absent and no balance query   *)
(* keeps its flag; the answer to a query whose flag was revoked, whenever  *)
(* it comes, leaves the balance as it is.                                  *)
(***************************************************************************)
C1_EmptyAccountsDisconnect ==
    [][ /\ HandlesEmptyAccounts =>
            /\ address' = null
            /\ signer' = null
            /\ balance' = null
            /\ \A q \in queries' : ~q.live
        /\ \A q \in queries :
            (Answered(q) /\ ~q.live) => balance' = balance
      ]_vars

\* the handler has cleared a connected Session while its balance query was
\* still in flight
C1_Witness ==
    /\ phase = "mounted"
    /\ address = null /\ signer = null /\ balance = null
    /\ \E q \in queries : ~q.live

(***************************************************************************)
(* C2: a balance query superseded by a change of provider or address       *)
(* never writes its result to balance nor its failure to error, in         *)
(* whatever order the answers come; an answer that is committed belongs to *)
(* the query for the current (provider, address) pair and is the formatted *)
(* balance of the current address.                                         *)
(***************************************************************************)
C2_StaleResultDiscarded ==
    [][ \A q \in queries :
          Answered(q) =>
            IF q.live
            THEN /\ provider = Some(q.pid)
                 /\ address = Some(q.addr)
                 /\ \/ /\ balance' = Some(formatEther(WeiOf(Val(address))))
                       /\ error' = error
                    \/ /\ balance' = balance
                       /\ error' = Some(RpcErrorMsg)
            ELSE /\ balance' = balance
                 /\ error' = error
      ]_vars

\* the query for the newer address has been answered and committed while
\* the superseded query for the older address is still in flight
C2_Witness ==
    /\ address # null
    /\ balance = Some(formatEther(WeiOf(Val(address))))
    /\ \A q \in queries : ~q.live
    /\ \E q \in queries : q.addr # Val(address)

(***************************************************************************)
(* C3: a call of connect() with no injected wallet leaves every Session    *)
(* field but error as it was, leaves the "no wallet" message in error,     *)
(* ends with connecting false and issues no request to a wallet.           *)
(***************************************************************************)
C3_NoWalletConnect ==
    [][ ConnectsWithoutWallet =>
          /\ error' = Some(NoWalletMsg)
          /\ connecting' = FALSE
          /\ UNCHANGED <<provider, signer, address, balance, chainId, chainHex>>
          /\ conn'.pc = "idle"
          /\ switches' = switches
      ]_vars

(***************************************************************************)
(* C4: after a call of connect() that failed, by a rejected authorization  *)
(* request or by a failed read of the chain, with no other handler run in  *)
(* between, address and signer are what they were before the call and      *)
(* error is the wallet's message.                                          *)
(***************************************************************************)
C4_FailedConnectKeepsAccount ==
    (/\ phase = "mounted"
     /\ conn.outcome \in {"rejected", "networkFailed"}
     /\ ~conn.mixed)
    => /\ address = conn.before[1]
       /\ signer = conn.before[2]
       /\ error = Some(IF conn.outcome = "rejected" THEN UserRejectedMsg
                       ELSE RpcErrorMsg)

C6_SuccessfulConnect ==
    (phase = "mounted" /\ conn.outcome = "ok" /\ ~conn.mixed)
    => /\ conn.raw \in {RawA, RawB}
       /\ conn.raw = RawA => address = Some(SumA)
       /\ conn.raw = RawB => address = Some(SumB)
       /\ provider = Some(conn.pid)
       /\ signer = Some(conn.pid)
       /\ chainId = Some(wChain)
       /\ wChain = Mainnet => chainHex = Some(<<"0", "x", "1">>)
       /\ wChain = Polygon => chainHex = Some(<<"0", "x", "8", "9">>)
       /\ wChain = Avalanche =>
            chainHex = Some(<<"0", "x", "a", "8", "6", "a">>)
       /\ ~connecting

\* the user approved the lower-case account RawB on network 1
C6_Witness ==
    /\ phase = "mounted" /\ conn.outcome = "ok" /\ ~conn.mixed
    /\ conn.raw = RawB /\ address = Some(SumB)
    /\ chainHex = Some(<<"0", "x", "1">>)
    /\ ~connecting

(***************************************************************************)
(* C7: when the wallet answers the switch request of a call of             *)
(* switchNetwork made without addChainParams with "chain unrecognized"     *)
(* (4902), error becomes the wallet's message, the call ends without an    *)
(* add-chain request, and chainHex and chainId are unchanged.              *)
(***************************************************************************)
C7_UnrecognizedWithoutParams ==
    [][ \A s \in switches :
          (RefusedAsUnrecognized(s) /\ s.add = null) =>
            /\ error' = Some(UnrecognizedChainMsg)
            /\ \A t \in switches' : t.id # s.id
            /\ UNCHANGED <<chainHex, chainId>>
      ]_vars

\* the call has ended on the wallet's message and no chain was registered
C7_Witness ==
    /\ error = Some(UnrecognizedChainMsg)
    /\ switches = {}
    /\ wKnown = KnownAtStart

(***************************************************************************)
(* C8: when the wallet answers the switch request of a call made with      *)
(* addChainParams with "chain unrecognized", the call issues one add-chain *)
(* request carrying these parameters and changes no Session field; when    *)
(* the wallet accepts the add-chain request the call ends and changes no   *)
(* Session field either, so that the chain fields change only with the     *)
(* chainChanged notification; an add-chain request comes from no other     *)
(* step.                                                                   *)
(***************************************************************************)
C8_AddChainOnlyWhenUnrecognized ==
    [][ /\ \A s \in switches :
            (RefusedAsUnrecognized(s) /\ s.add # null) =>
              /\ [s EXCEPT !.pc = "add"] \in switches'
              /\ UNCHANGED session
        /\ \A s \in switches :
            (s.pc = "add" /\ s \notin switches') =>
              /\ \A t \in switches' : t.id # s.id
              /\ \/ /\ wChain' = ParseInt16(Val(s.add).chainId)
                    /\ wChain' \in wKnown'
                    /\ UNCHANGED session
                 \/ /\ UNCHANGED wallet
                    /\ error' = W(error, Some(UserRejectedMsg))
                    /\ UNCHANGED <<provider, signer, address, balance,
                                   chainId, chainHex, connecting>>
        /\ \A t \in switches' :
            (t.pc = "add" /\ t \notin switches) =>
              \E s \in switches :
                /\ s.id = t.id /\ s.pc = "switch" /\ s.add = t.add
                /\ s.add # null
                /\ ParseInt16(s.hex) \notin wKnown
      ]_vars

\* the wallet has registered and activated the chain, the call has ended,
\* and the Session still shows the old chain: the notification is waiting
C8_Witness ==
    /\ phase = "mounted"
    /\ switches = {}
    /\ Polygon \in wKnown /\ wChain = Polygon
    /\ chainId = Some(Mainnet)
    /\ \E i \in 1..Len(notifs) : notifs[i] = ChainChanged(ToHex(Polygon))

(***************************************************************************)
(* C9: chainHex and chainId are both absent or both present, and then      *)
(* chainHex parsed as a hex number is chainId and chainId written in hex   *)
(* is chainHex, whichever of initProvider, connect and the chainChanged    *)
(* handler wrote them last.                                                *)
(***************************************************************************)
C9_ChainFieldsConsistent ==
    /\ chainHex = null <=> chainId = null
    /\ chainHex # null =>
         /\ ParseInt16(Val(chainHex)) = Val(chainId)
         /\ ToHex(Val(chainId)) = Val(chainHex)
         /\ Val(chainId) \in ChainIds

\* a chain whose hex form has letters and several digits
C9_Witness ==
    /\ chainId = Some(Avalanche)
    /\ chainHex = Some(<<"0", "x", "a", "8", "6", "a">>)

C11_InitProviderPassive ==
    [][ /\ RequestsAccounts =>
              /\ conn.pc = "idle"
              /\ ops' = ops + 1
              /\ connecting'
              /\ inits' = inits
        /\ \A r \in inits :
              (ListsAccounts(r) /\ wAccounts # <<>>) =>
                /\ ~RequestsAccounts
                /\ wAccounts[1] = RawA => address' = Some(SumA)
                /\ wAccounts[1] = RawB => address' = Some(SumB)
                /\ signer' # null
      ]_vars

(***************************************************************************)
(* C12: in every state, the balance refresh having run for the current     *)
(* (provider, address) pair, if provider or address is absent then balance *)
(* is absent, and the refresh has left no balance query that may still     *)
(* write one.                                                              *)
(***************************************************************************)
C12_BalanceClearedWhenAbsent ==
    (provider = null \/ address = null) =>
      /\ balance = null
      /\ \A q \in queries : ~q.live

\* the address became absent while the query made with the current provider
\* was still in flight
C12_Witness ==
    /\ phase = "mounted"
    /\ provider # null /\ address = null /\ balance = null
    /\ \E q \in queries : q.pid = Val(provider) /\ ~q.live

(***************************************************************************)
(* C13: the page never has more than one listener on accountsChanged nor   *)
(* on chainChanged; the two are registered in one step, at mount, when a   *)
(* wallet is there, and removed in one step, at teardown, after which      *)
(* none is left; and once the page is torn down, whatever the wallet       *)
(* emits, no notification waits for a handler and no Session field         *)
(* changes.                                                                *)
(***************************************************************************)
C13_SubscribedOnceUntilTeardown ==
    [][ /\ \A k \in NotifKinds : listeners'[k] <= 1
        /\ Subscribed' <=> (phase' = "mounted" /\ hasWallet)
        /\ listeners' # listeners =>
              \/ /\ phase = "created" /\ phase' = "mounted" /\ hasWallet
                 /\ \A k \in NotifKinds : listeners'[k] = 1
              \/ /\ phase = "mounted" /\ phase' = "unmounted"
        /\ phase' = "unmounted" => \A k \in NotifKinds : listeners'[k] = 0
        /\ phase = "unmounted" =>
              /\ UNCHANGED session
              /\ notifs' = <<>>
      ]_vars

\* the wallet has moved to another chain that the torn-down page, its
\* listeners removed, does not show
C13_Witness ==
    /\ phase = "unmounted"
    /\ \A k \in NotifKinds : listeners[k] = 0
    /\ notifs = <<>>
    /\ chainId # null /\ chainId # Some(wChain)

(***************************************************************************)
(* C14: the step of the chainChanged handler sets chainHex to the payload  *)
(* and chainId to the number it denotes (137 for "0x89", 43114 for         *)
(* "0xa86a"), and starts one run of initProvider(), no more: the run is    *)
(* at its first read, getNetwork, so that no read of the run precedes the  *)
(* update of the chain fields, and it has put a provider made for it in    *)
(* the place of the previous one.                                          *)
(***************************************************************************)
C14_ChainChangedThenReconcile ==
    [][ HandlesChainChanged =>
          LET hex == Head(notifs).hex
              run == [pid |-> nextPid, pc |-> "getNetwork"]
          IN  /\ chainHex' = Some(hex)
              /\ \A c \in ChainIds : hex = ToHex(c) => chainId' = Some(c)
              /\ \E c \in ChainIds : hex = ToHex(c)
              /\ run \notin inits
              /\ \A r \in inits : r.pid # run.pid
              /\ inits' = inits \cup {run}
              /\ provider' = Some(run.pid)
              /\ provider' # provider
      ]_vars

\* the handler has run for chain 43114 and its run of initProvider() waits
\* for its first read, the provider replaced
C14_Witness ==
    /\ phase = "mounted"
    /\ chainId = Some(Avalanche)
    /\ chainHex = Some(<<"0", "x", "a", "8", "6", "a">>)
    /\ provider # null
    /\ [pid |-> Val(provider), pc |-> "getNetwork"] \in inits
    /\ Val(provider) > 1

(***************************************************************************)
(* C16: when the balance query for the current (provider, address) pair is *)
(* answered by a failure, error becomes the failure's message and balance  *)
(* keeps the value it had, be it that of another address; no other Session *)
(* field changes, and the query is not issued again.                       *)
(***************************************************************************)
C16_BalanceFailureKeepsBalance ==
    [][ \A q \in queries :
          (Answered(q) /\ q.live /\ ~Committed(q)) =>
            /\ error' = Some(RpcErrorMsg)
            /\ balance' = balance
            /\ UNCHANGED <<provider, signer, address, chainId, chainHex,
                           connecting>>
            /\ queries' = queries \ {q}
            /\ \A t \in queries' : ~t.live
      ]_vars

\* the balance shown is that of the previous address: the query for the
\* current one has been answered, by a failure, and none is in flight
C16_Witness ==
    /\ phase = "mounted"
    /\ provider # null /\ address # null
    /\ balance # null
    /\ balance # Some(formatEther(WeiOf(Val(address))))
    /\ error = Some(RpcErrorMsg)
    /\ \A q \in queries : ~q.live

(***************************************************************************)
(* C17: the step of the accountsChanged handler on a list with accounts    *)
(* sets address to the checksummed form of the first of them and signer to *)
(* the signer of a provider constructed in that step, which is not the     *)
(* Session's provider; provider, chainId, chainHex, error and connecting   *)
(* are unchanged.                                                          *)
(***************************************************************************)
C17_AccountsChangedFrame ==
    [][ HandlesAccounts =>
          LET first == Head(notifs).accs[1]
          IN  /\ first \in {RawA, RawB}
              /\ first = RawA => address' = Some(SumA)
              /\ first = RawB => address' = Some(SumB)
              /\ signer' = Some(nextPid)
              /\ nextPid' = nextPid + 1
              /\ signer' # provider'
              /\ signer' # signer
              /\ UNCHANGED <<provider, chainId, chainHex, error, connecting>>
      ]_vars

\* the handler has run for the wallet's two accounts: the address is the
\* first one's and the signer's provider is newer than the Session's
C17_Witness ==
    /\ phase = "mounted"
    /\ wAccounts = <<RawB, RawA>>
    /\ ~AccountsChangedPending
    /\ address = Some(SumB)
    /\ provider # null /\ signer # null
    /\ Val(signer) > Val(provider)
    /\ conn.pc = "idle"

(***************************************************************************)
(* C18: with a wallet present, signer is present exactly when address is,  *)
(* in every state of every run in which ethers.getAddress has not thrown:  *)
(* no step of connect(), of initProvider() or of the two handlers, however *)
(* they interleave, other than one in which getAddress throws, leads from  *)
(* a state where the two agree to one where they do not.                   *)
(***************************************************************************)
C18_SignerIffAddress ==
    [][ (/\ hasWallet
         /\ signer # null <=> address # null
         /\ ~NormalizationFails)
        => (signer' # null <=> address' # null)
      ]_vars

\* connect() has set both and waits for its chain read while a run of
\* initProvider(), started by a chainChanged notification, is in flight
C18_Witness ==
    /\ phase = "mounted"
    /\ conn.pc = "getNetwork"
    /\ inits # {}
    /\ signer # null /\ address # null
    /\ error = null

(***************************************************************************)
(* C20: no two balance queries that may still commit their result are in   *)
(* flight together: the one that may is the query for the current          *)
(* (provider, address) pair, and a step that changes provider or address,  *)
(* or tears the page down, leaves every query made before it revoked.      *)
(***************************************************************************)
C20_OneLiveQuery ==
    [][ /\ \A q, t \in queries' : (q.live /\ t.live) => q = t
        /\ \A q \in queries' :
              q.live => /\ provider' = Some(q.pid)
                        /\ address' = Some(q.addr)
                        /\ phase' = "mounted"
        /\ (provider' # provider \/ address' # address
                \/ (phase = "mounted" /\ phase' = "unmounted")) =>
              \A q \in queries : [q EXCEPT !.live = FALSE] \in queries'
      ]_vars

\* the query of the replaced provider and the query of the current one are
\* both in flight, and only the second keeps its flag
C20_Witness ==
    /\ phase = "mounted"
    /\ provider # null /\ address # null
    /\ \E q, t \in queries :
          /\ q.live /\ q.pid = Val(provider)
          /\ ~t.live /\ t.pid # q.pid /\ t.addr = q.addr

(***************************************************************************)
(* C19: in the runs in which every read succeeds, from some point on, the  *)
(* wallet having stopped changing its chain, chainId is the wallet's       *)
(* active chain and chainHex its hex form ("0xa86a" for 43114) for as long *)
(* as the page is mounted, however the chainChanged handlers, their runs   *)
(* of initProvider() and the reads of connect() overlapped.                *)
(***************************************************************************)
C19_ChainEventuallyConsistent ==
    <>[]( (phase = "mounted" /\ hasWallet /\ ~HandlerHeld) =>
            /\ chainId = Some(wChain)
            /\ wChain = Mainnet => chainHex = Some(<<"0", "x", "1">>)
            /\ wChain = Polygon => chainHex = Some(<<"0", "x", "8", "9">>)
            /\ wChain = Avalanche =>
                 chainHex = Some(<<"0", "x", "a", "8", "6", "a">>) )

\* the wallet has left chain 1 and come back to it; both notifications
\* have been handled, every read of the three runs of initProvider() has
\* been answered, and the Session shows the wallet's chain
C19_Witness ==
    /\ phase = "mounted"
    /\ ops = 2 /\ notifs = <<>> /\ inits = {} /\ switches = {}
    /\ address = null /\ signer = null
    /\ nextPid = 4
    /\ wChain = Mainnet
    /\ chainId = Some(Mainnet) /\ chainHex = Some(<<"0", "x", "1">>)

====
